---- MODULE Spec2Model ----
(***************************************************************************)
(* Loan ledger of backend/server.py: the MongoDB collections db.loans,     *)
(* db.payments and db.users and the request handlers that read and write   *)
(* them.                                                                   *)
(*                                                                         *)
(* Every handler is an async coroutine: it runs without interruption from  *)
(* one await to the next, and other requests run while it awaits a         *)
(* database operation.  Each database operation (find_one, insert_one,     *)
(* update_one, delete_one, find) is one atomic step.  A client is one      *)
(* connection that sends a request and waits for its response; two         *)
(* clients make two requests concurrent.                                   *)
(*                                                                         *)
(* Every route but register_user depends on get_current_user; the model   *)
(* takes the bearer token to be valid, so that each handler body runs.     *)
(***************************************************************************)
EXTENDS Integers, Sequences, FiniteSets, TLC

\* ---------------------------------------------------------------- bounds
NumClients == 2
MaxLoans == 2
MaxPayments == 2
MaxUsers == 2

\* Clock ticks per day: datetime has a finer resolution than the day.
TicksPerDay == 2

\* ------------------------------------------------------ program constants
\* generate_serial_number: the first serial number is A150.
FirstSerial == 150
\* to_list(1000): the dashboard fetches at most this many documents.
FetchCap == 1000
\* calculate_interest: annual_rate = 0.24, as a percentage.
AnnualRatePct == 24
\* calculate_interest: the days of the first year, and of a rate's year.
YearDays == 365

Clients == 1..NumClients
\* uuid4 ids: every Loan gets a fresh id; the loan of the k-th create_loan
\* call gets id k.
LoanIds == 1..MaxLoans

None == <<>>
Some(x) == <<x>>

\* ------------------------------------------------- strings and integers
\* A Python str is modelled as the sequence of its characters.
DigitChars == <<"0", "1", "2", "3", "4", "5", "6", "7", "8", "9">>

IsDigit(ch) == \E d \in 1..10 : DigitChars[d] = ch

DigitVal(ch) == (CHOOSE d \in 1..10 : DigitChars[d] = ch) - 1

RECURSIVE FormatNat(_)
FormatNat(n) ==
    IF n < 10 THEN <<DigitChars[n + 1]>>
    ELSE FormatNat(n \div 10) \o <<DigitChars[(n % 10) + 1]>>

\* f"{n}" for an int n.
FormatInt(n) == IF n < 0 THEN <<"-">> \o FormatNat(0 - n) ELSE FormatNat(n)

RECURSIVE DigitsVal(_, _)
DigitsVal(s, acc) ==
    IF s = <<>> THEN acc ELSE DigitsVal(Tail(s), 10 * acc + DigitVal(Head(s)))

AllDigits(s) == s # <<>> /\ \A i \in 1..Len(s) : IsDigit(s[i])

\* int(s) for a str s over the characters of the model: None stands for the
\* ValueError int raises on anything but an optionally signed run of digits.
ParseInt(s) ==
    IF AllDigits(s) THEN Some(DigitsVal(s, 0))
    ELSE IF s # <<>> /\ Head(s) = "-" /\ AllDigits(Tail(s))
         THEN Some(0 - DigitsVal(Tail(s), 0))
    ELSE IF s # <<>> /\ Head(s) = "+" /\ AllDigits(Tail(s))
         THEN Some(DigitsVal(Tail(s), 0))
    ELSE None

\* s[1:]
DropFirst(s) == IF s = <<>> THEN <<>> ELSE Tail(s)

\* f"A{n}"
SerialStr(n) == <<"A">> \o FormatInt(n)

\* ------------------------------------------------------------------ money
\* A float amount is modelled in fixed point: the integer n stands for the
\* amount n / 400, so that a paisa (1/100) is 4 and a sixteenth is 25.  Every
\* amount the model sends is a float exactly, and so is every sum of them.
Money(rupees) == 400 * rupees
Paisa(n) == 4 * n

\* ------------------------------------------------------------------- time
\* A datetime is modelled as a number of ticks since an epoch.
Days(d) == d * TicksPerDay

\* datetime.isoformat and datetime.fromisoformat, on the decimal numeral of
\* the tick count.
isoformat(t) == FormatInt(t)
fromisoformat(s) == ParseInt(s)[1]

\* The days whose instants the clock is read at.
ClockDays == {0, 1, YearDays, YearDays + 1}

Instants == {Days(d) + h : d \in ClockDays, h \in 0..(TicksPerDay - 1)}

\* ---------------------------------------------------------------- inputs
\* LoanCreate.principal_amount: any float is accepted; 1875 is 4.6875.
Principals == {Money(100), Money(200), Money(50000), 1875}

\* LoanCreate.monthly_interest, in percent; 2 is the default.
MonthlyInterests == {2, 3}

\* LoanCreate.loan_date: any datetime is accepted, also a later one than the
\* request's; the model sends timezone-aware ones.
LoanDates == {0, Days(1) + 1}

\* PaymentCreate (models_update.py): any float, any str is accepted.
Amounts == {0, Money(100)}
TransactionTypes == {"both", "full_release"}
PrincipalPaids == {Money(60)}
InterestPaids == {Money(40), Money(50)}

LoanCreate ==
    [principal_amount : Principals, monthly_interest : MonthlyInterests,
     loan_date : LoanDates]

\* The loan requests of the serial-number specifications: two principals.
SerialLoans ==
    {data \in LoanCreate :
        /\ data.principal_amount \in {Money(100), Money(200)}
        /\ data.monthly_interest = 2
        /\ data.loan_date = 0}

\* The loan requests of the ledger specifications, which vary the payments.
LedgerLoans == {data \in SerialLoans : data.principal_amount = Money(100)}

PaymentCreate ==
    [loan_id : LoanIds, amount : Amounts, transaction_type : TransactionTypes,
     principal_paid : PrincipalPaids, interest_paid : InterestPaids]

\* update_loan's loan_data is an arbitrary dict; these are the $set documents
\* the model sends.
StatusDocs == {[field |-> "status", value |-> "closed"]}

SerialDocs ==
    {[field |-> "serial_no", value |-> SerialStr(FirstSerial)],
     [field |-> "serial_no", value |-> <<"Z">>]}

UpdateDocs == StatusDocs \union SerialDocs

\* Loan.status: active, closed, overdue.
OverdueDocs == {[field |-> "status", value |-> "overdue"]}

DashboardDocs == StatusDocs \union OverdueDocs

\* UserCreate: any str is an email; the password and the name, which no
\* check reads, are left out.
Emails == {"asha@example.com", "ravi@example.com", "mina@example.com"}

UserCreate == [email : Emails]

\* The two definitions of Payment / PaymentCreate in the repository.
Schemas == {"server", "models_update"}

\* ----------------------------------------------------------------- state
VARIABLES
    loans,      \* db.loans, in insertion order
    payments,   \* db.payments, in insertion order
    now,        \* datetime.now(timezone.utc)
    schema,     \* which Payment / PaymentCreate definition is deployed
    pc,         \* per client: where its handler is suspended
    local,      \* per client: the suspended handler's local variables
    resp,       \* the response the last step sent, if it sent one
    issued,     \* history: the serial numbers generate_serial_number returned
    received,   \* history: the sum of amount over the payments inserted
    users       \* db.users, in insertion order

vars ==
    <<loans, payments, now, schema, pc, local, resp, issued, received, users>>

NoLocal == [op |-> "none"]
NoResp == [client |-> 0, op |-> "none", code |-> 0]

Init ==
    /\ loans = <<>>
    /\ payments = <<>>
    /\ now = 0
    /\ schema \in Schemas
    /\ pc = [c \in Clients |-> "idle"]
    /\ local = [c \in Clients |-> NoLocal]
    /\ resp = NoResp
    /\ issued = <<>>
    /\ received = 0
    /\ users = <<>>

\* ------------------------------------------------------------ collections
RECURSIVE SumRange(_, _, _, _)
\* s[lo][field] + ... + s[hi][field].  The sum is split in halves to keep
\* the evaluation shallow; on the integers of the model it equals the
\* left-to-right sum Python computes.
SumRange(s, field, lo, hi) ==
    IF lo > hi THEN 0
    ELSE IF lo = hi THEN s[lo][field]
    ELSE LET mid == (lo + hi) \div 2
         IN  SumRange(s, field, lo, mid) + SumRange(s, field, mid + 1, hi)

\* sum(x[field] for x in s)
SeqSum(s, field) == SumRange(s, field, 1, Len(s))

\* cursor.to_list(n): the first n documents.
to_list(s, n) == IF Len(s) <= n THEN s ELSE SubSeq(s, 1, n)

\* db.loans.find_one({"id": loan_id}): the first match, or None.
find_one(id) ==
    LET hits == {i \in DOMAIN loans : loans[i].id = id}
    IN  IF hits = {} THEN None
        ELSE Some(loans[CHOOSE i \in hits : \A j \in hits : i <= j])

\* db.loans.find_one({}, sort=[("created_at", -1)]): the documents the query
\* may return, those with the greatest created_at (None on an empty
\* collection).  created_at is stored as an isoformat string of a UTC time;
\* such strings sort as the instants do.
find_last ==
    IF loans = <<>> THEN {None}
    ELSE {Some(loans[i]) : i \in {k \in DOMAIN loans :
              \A j \in DOMAIN loans : loans[j].created_at <= loans[k].created_at}}

\* db.loans.find({"status": status}): the matching documents, in order.
find_status(status) == SelectSeq(loans, LAMBDA l : l.status = status)

\* ---------------------------------------------------------- register_user
\* db.users.find_one({"email": email}): the first match, or None.
find_user(email) ==
    LET hits == {i \in DOMAIN users : users[i].email = email}
    IN  IF hits = {} THEN None
        ELSE Some(users[CHOOSE i \in hits : \A j \in hits : i <= j])

\* Requests between the find_one and the insert_one of register_user; the
\* model takes no request that would store a user past MaxUsers.
UsersInFlight == Cardinality({c \in Clients : pc[c] = "user_insert"})

\* existing_user = await db.users.find_one({"email": user_data.email}); 400
\* when there is one; otherwise the User is built.
register_user_find(c, user_data) ==
    /\ pc[c] = "idle"
    /\ find_user(user_data.email) = None => Len(users) + UsersInFlight < MaxUsers
    /\ IF find_user(user_data.email) # None
       THEN /\ resp' = [client |-> c, op |-> "register_user", code |-> 400]
            /\ UNCHANGED <<pc, local>>
       ELSE /\ resp' = NoResp
            /\ pc' = [pc EXCEPT ![c] = "user_insert"]
            /\ local' = [local EXCEPT ![c] =
                   [op |-> "register_user",
                    doc |-> [email |-> user_data.email, is_active |-> TRUE]]]
    /\ UNCHANGED <<loans, payments, now, schema, issued, received, users>>

\* await db.users.insert_one(doc); return user_obj
register_user_insert(c) ==
    /\ pc[c] = "user_insert"
    /\ users' = Append(users, local[c].doc)
    /\ resp' = [client |-> c, op |-> "register_user", code |-> 200]
    /\ pc' = [pc EXCEPT ![c] = "idle"]
    /\ local' = [local EXCEPT ![c] = NoLocal]
    /\ UNCHANGED <<loans, payments, now, schema, issued, received>>

\* -------------------------------------------------- generate_serial_number
\* generate_serial_number without its "+ 1": the last serial number again.
next_serial_repeated(last_loan) ==
    IF last_loan # None /\ last_loan[1].serial_no # <<>>
    THEN LET last_num == ParseInt(DropFirst(last_loan[1].serial_no))
         IN  IF last_num # None THEN SerialStr(last_num[1])
             ELSE SerialStr(FirstSerial)
    ELSE SerialStr(FirstSerial)

\* The serial computed from the document find_one returned.
next_serial(last_loan) ==
    IF last_loan # None /\ last_loan[1].serial_no # <<>>
    THEN LET last_num == ParseInt(DropFirst(last_loan[1].serial_no))
         IN  IF last_num # None THEN SerialStr(last_num[1] + 1)
             ELSE SerialStr(FirstSerial)
    ELSE SerialStr(FirstSerial)

\* ------------------------------------------------------------ create_loan
\* await generate_serial_number(): the find_one and the serial it yields.
create_loan_generate(c, data) ==
    /\ pc[c] = "idle"
    /\ Len(issued) < MaxLoans
    /\ \E last_loan \in find_last :
         /\ local' = [local EXCEPT ![c] =
                [op |-> "create_loan", id |-> Len(issued) + 1,
                 serial_no |-> next_serial(last_loan),
                 principal_amount |-> data.principal_amount,
                 monthly_interest |-> data.monthly_interest,
                 loan_date |-> data.loan_date]]
         /\ issued' = Append(issued, next_serial(last_loan))
    /\ pc' = [pc EXCEPT ![c] = "loan_build"]
    /\ resp' = NoResp
    /\ UNCHANGED <<loans, payments, now, schema, received, users>>

\* Loan(**loan_dict): id and created_at take their defaults, status is active.
\* Each call of datetime.now yields a later instant than the one before.
create_loan_build(c) ==
    /\ pc[c] = "loan_build"
    /\ now' = now + 1
    /\ local' = [local EXCEPT ![c] =
           [op |-> "create_loan", id |-> local[c].id,
            serial_no |-> local[c].serial_no,
            principal_amount |-> local[c].principal_amount,
            monthly_interest |-> local[c].monthly_interest,
            loan_date |-> local[c].loan_date,
            status |-> "active", created_at |-> now + 1]]
    /\ pc' = [pc EXCEPT ![c] = "loan_insert"]
    /\ resp' = NoResp
    /\ UNCHANGED <<loans, payments, schema, issued, received, users>>

\* await db.loans.insert_one(doc); return loan_obj
create_loan_insert(c) ==
    /\ pc[c] = "loan_insert"
    /\ loans' = Append(loans,
           [id |-> local[c].id, serial_no |-> local[c].serial_no,
            principal_amount |-> local[c].principal_amount,
            monthly_interest |-> local[c].monthly_interest,
            loan_date |-> isoformat(local[c].loan_date),
            status |-> local[c].status, created_at |-> local[c].created_at])
    /\ resp' = [client |-> c, op |-> "create_loan", code |-> 200, serial_no |-> local[c].serial_no]
    /\ pc' = [pc EXCEPT ![c] = "idle"]
    /\ local' = [local EXCEPT ![c] = NoLocal]
    /\ UNCHANGED <<payments, now, schema, issued, received, users>>

\* ----------------------------------------------------- calculate_interest
RECURSIVE GCD(_, _)
GCD(a, b) == IF b = 0 THEN a ELSE GCD(b, a % b)

Abs(n) == IF n < 0 THEN 0 - n ELSE n

\* The quotient a * b / m (a >= 0, m > 0) rounded to the nearest integer, a
\* tie going to the even one: a * b is formed in parts, in lowest terms, to
\* stay within the integers.
round_half_even(a, b, m) ==
    LET g == GCD(m, Abs(b))
        bb == b \div g
        mm == m \div g
        n == (a % mm) * bb
        q == (a \div mm) * bb + (n \div mm)
        r == n % mm
    IN  IF 2 * r < mm THEN q
        ELSE IF 2 * r > mm THEN q + 1
        ELSE IF q % 2 = 0 THEN q ELSE q + 1

\* round(x, 2) for x = principal * per_year / (100 * 365): Python rounds the
\* float to the nearest multiple of 0.01 and an exact tie to the even one.
\* On the amounts and days of the model the float product is near enough to
\* the exact one to round alike, and its exact ties are floats.
round_2(principal, per_year) ==
    Paisa(round_half_even(principal, per_year, Money(1) * YearDays))

\* principal * ((1 + annual_rate) ** years): a real power, which the model
\* does not evaluate; the term stands for its value.
compound_amount(principal, total_days) ==
    [principal |-> principal, base_pct |-> 100 + AnnualRatePct,
     days |-> total_days, per |-> YearDays]

\* calculate_interest with "total_days < 365" for its first-year test.
calculate_interest_before_365(principal, start_date, current_date) ==
    LET total_days == (current_date - start_date) \div TicksPerDay
    IN  IF total_days < YearDays
        THEN [principal |-> principal,
              interest |-> round_2(principal, AnnualRatePct * total_days),
              total_amount |->
                  round_2(principal, 100 * YearDays + AnnualRatePct * total_days),
              days |-> total_days, interest_type |-> "simple"]
        ELSE [principal |-> principal,
              interest |-> [less_principal |-> compound_amount(principal, total_days)],
              total_amount |-> [rounded |-> compound_amount(principal, total_days)],
              days |-> total_days, interest_type |-> "compound"]

\* calculate_interest(principal, start_date, current_date): timedelta.days is
\* the floor of the difference in days.
calculate_interest(principal, start_date, current_date) ==
    LET total_days == (current_date - start_date) \div TicksPerDay
    IN  IF total_days <= YearDays
        THEN [principal |-> principal,
              interest |-> round_2(principal, AnnualRatePct * total_days),
              total_amount |->
                  round_2(principal, 100 * YearDays + AnnualRatePct * total_days),
              days |-> total_days, interest_type |-> "simple"]
        ELSE [principal |-> principal,
              interest |-> [less_principal |-> compound_amount(principal, total_days)],
              total_amount |-> [rounded |-> compound_amount(principal, total_days)],
              days |-> total_days, interest_type |-> "compound"]

\* ------------------------------------------------- calculate_loan_interest
\* The request's query parameters: the route declares none, so FastAPI drops
\* an as_of parameter before the handler runs.
AsOfDates == {None, Some(Days(1))}

\* datetime.now(timezone.utc): an instant not before the last one read.
clock == {t \in Instants : t >= now} \union {now}

\* loan = await db.loans.find_one({"id": loan_id}); 404 when None;
\* calculate_interest(loan["principal_amount"], loan_date) at the current time.
calculate_loan_interest(c, id, as_of) ==
    /\ pc[c] = "idle"
    /\ IF find_one(id) = None
       THEN /\ resp' = [client |-> c, op |-> "calculate_loan_interest", code |-> 404]
            /\ UNCHANGED now
       ELSE \E current_date \in clock :
                /\ now' = current_date
                /\ resp' = [client |-> c, op |-> "calculate_loan_interest",
                            code |-> 200, loan_id |-> id, as_of |-> as_of,
                            result |-> calculate_interest(
                                find_one(id)[1].principal_amount,
                                fromisoformat(find_one(id)[1].loan_date),
                                current_date)]
    /\ UNCHANGED <<loans, payments, schema, pc, local, issued, received, users>>

\* ------------------------------------------------------------ update_loan
\* {"$set": loan_data} applied to one document.
set_fields(loan, doc) ==
    IF doc.field = "status" THEN [loan EXCEPT !.status = doc.value]
    ELSE IF doc.field = "serial_no" THEN [loan EXCEPT !.serial_no = doc.value]
    ELSE loan

\* db.loans.update_one({"id": loan_id}, {"$set": loan_data}): the collection
\* with the first matching document updated.
update_one(id, doc) ==
    LET hits == {i \in DOMAIN loans : loans[i].id = id}
        first == CHOOSE i \in hits : \A j \in hits : i <= j
    IN  IF hits = {} THEN loans
        ELSE [loans EXCEPT ![first] = set_fields(loans[first], doc)]

\* await db.loans.update_one(...); 404 when nothing matched.
update_loan_set(c, id, doc) ==
    /\ pc[c] = "idle"
    /\ loans' = update_one(id, doc)
    /\ IF find_one(id) = None
       THEN /\ resp' = [client |-> c, op |-> "update_loan", code |-> 404]
            /\ UNCHANGED <<pc, local>>
       ELSE /\ resp' = NoResp
            /\ pc' = [pc EXCEPT ![c] = "update_fetch"]
            /\ local' = [local EXCEPT ![c] = [op |-> "update_loan", id |-> id]]
    /\ UNCHANGED <<payments, now, schema, issued, received, users>>

\* updated_loan = await db.loans.find_one({"id": loan_id}); subscripting None
\* (the loan was deleted meanwhile) raises TypeError, a 500.
update_loan_fetch(c) ==
    /\ pc[c] = "update_fetch"
    /\ resp' = [client |-> c, op |-> "update_loan",
            code |-> IF find_one(local[c].id) = None THEN 500 ELSE 200]
    /\ pc' = [pc EXCEPT ![c] = "idle"]
    /\ local' = [local EXCEPT ![c] = NoLocal]
    /\ UNCHANGED <<loans, payments, now, schema, issued, received, users>>

\* ------------------------------------------------------------ delete_loan
\* db.loans.delete_one({"id": loan_id}): the collection without the first match.
delete_one(id) ==
    LET hits == {i \in DOMAIN loans : loans[i].id = id}
        first == CHOOSE i \in hits : \A j \in hits : i <= j
    IN  IF hits = {} THEN loans
        ELSE SubSeq(loans, 1, first - 1) \o SubSeq(loans, first + 1, Len(loans))

\* delete_loan without its deleted_count check: 200 for an unknown loan too.
delete_loan_unchecked(c, id) ==
    /\ pc[c] = "idle"
    /\ loans' = delete_one(id)
    /\ resp' = [client |-> c, op |-> "delete_loan", code |-> 200]
    /\ UNCHANGED <<payments, now, schema, pc, local, issued, received, users>>

\* delete_loan deleting the loan's payments with the loan.
delete_loan_cascade(c, id) ==
    /\ pc[c] = "idle"
    /\ loans' = delete_one(id)
    /\ payments' = SelectSeq(payments, LAMBDA p : p.loan_id # id)
    /\ resp' = [client |-> c, op |-> "delete_loan",
            code |-> IF find_one(id) = None THEN 404 ELSE 200]
    /\ UNCHANGED <<now, schema, pc, local, issued, received, users>>

\* result = await db.loans.delete_one({"id": loan_id}); 404 when nothing was
\* deleted.
delete_loan(c, id) ==
    /\ pc[c] = "idle"
    /\ loans' = delete_one(id)
    /\ resp' = [client |-> c, op |-> "delete_loan",
            code |-> IF find_one(id) = None THEN 404 ELSE 200]
    /\ UNCHANGED <<payments, now, schema, pc, local, issued, received, users>>

\* --------------------------------------------------------- create_payment
\* The request body as PaymentCreate parses it.  server.py's PaymentCreate
\* declares no transaction_type, principal_paid or interest_paid, so those
\* are dropped; a reader of the stored document sees Payment's defaults.
parse_payment(body) ==
    IF schema = "models_update" THEN body
    ELSE [body EXCEPT !.transaction_type = "interest",
                      !.principal_paid = 0, !.interest_paid = 0]

\* Requests between the find_one and the insert_one of create_payment.
PaymentsInFlight == Cardinality({c \in Clients : pc[c] = "pay_insert"})

\* The model stops taking payment requests at MaxPayments documents, and
\* again one document past the dashboard's fetch cap.
PaymentRoom ==
    LET n == Len(payments) + PaymentsInFlight
    IN  n < MaxPayments \/ (FetchCap - 1 <= n /\ n <= FetchCap)

\* create_payment without its "if not loan" check: the payment of an unknown
\* loan is built with an empty serial number and goes on to the insert.
create_payment_find_unchecked(c, body) ==
    /\ pc[c] = "idle"
    /\ PaymentRoom
    /\ resp' = NoResp
    /\ pc' = [pc EXCEPT ![c] = "pay_insert"]
    /\ local' = [local EXCEPT ![c] =
           [op |-> "create_payment",
            doc |-> [loan_id |-> parse_payment(body).loan_id,
                     loan_serial_no |->
                         IF find_one(body.loan_id) = None THEN <<>>
                         ELSE find_one(body.loan_id)[1].serial_no,
                     amount |-> parse_payment(body).amount,
                     transaction_type |-> parse_payment(body).transaction_type,
                     principal_paid |-> parse_payment(body).principal_paid,
                     interest_paid |-> parse_payment(body).interest_paid]]]
    /\ UNCHANGED <<loans, payments, now, schema, issued, received, users>>

\* loan = await db.loans.find_one({"id": payment_data.loan_id}); 404 when None;
\* Payment(**payment_dict) with the loan's serial number.
create_payment_find(c, body) ==
    /\ pc[c] = "idle"
    /\ PaymentRoom
    /\ IF find_one(body.loan_id) = None
       THEN /\ resp' = [client |-> c, op |-> "create_payment", code |-> 404]
            /\ UNCHANGED <<pc, local>>
       ELSE /\ resp' = NoResp
            /\ pc' = [pc EXCEPT ![c] = "pay_insert"]
            /\ local' = [local EXCEPT ![c] =
                   [op |-> "create_payment",
                    doc |-> [loan_id |-> parse_payment(body).loan_id,
                             loan_serial_no |-> find_one(body.loan_id)[1].serial_no,
                             amount |-> parse_payment(body).amount,
                             transaction_type |-> parse_payment(body).transaction_type,
                             principal_paid |-> parse_payment(body).principal_paid,
                             interest_paid |-> parse_payment(body).interest_paid]]]
    /\ UNCHANGED <<loans, payments, now, schema, issued, received, users>>

\* create_payment closing the loan when it records a full_release payment.
create_payment_insert_closing(c) ==
    /\ pc[c] = "pay_insert"
    /\ payments' = Append(payments, local[c].doc)
    /\ loans' = IF local[c].doc.transaction_type = "full_release"
                THEN update_one(local[c].doc.loan_id,
                                [field |-> "status", value |-> "closed"])
                ELSE loans
    /\ received' = received + local[c].doc.amount
    /\ resp' = [client |-> c, op |-> "create_payment", code |-> 200]
    /\ pc' = [pc EXCEPT ![c] = "idle"]
    /\ local' = [local EXCEPT ![c] = NoLocal]
    /\ UNCHANGED <<now, schema, issued, users>>

\* await db.payments.insert_one(doc); return payment_obj
create_payment_insert(c) ==
    /\ pc[c] = "pay_insert"
    /\ payments' = Append(payments, local[c].doc)
    /\ received' = received + local[c].doc.amount
    /\ resp' = [client |-> c, op |-> "create_payment", code |-> 200]
    /\ pc' = [pc EXCEPT ![c] = "idle"]
    /\ local' = [local EXCEPT ![c] = NoLocal]
    /\ UNCHANGED <<loans, now, schema, issued, users>>

\* ---------------------------------------------------- get_dashboard_stats
\* cash_in_hand summed over the payments of active loans only.
cash_in_hand_of_active ==
    SeqSum(to_list(SelectSeq(payments, LAMBDA p :
                       \E i \in DOMAIN loans :
                           loans[i].id = p.loan_id /\ loans[i].status = "active"),
                   FetchCap),
           "amount")

\* total_loan_amount summed over every loan that is not closed.
total_loan_amount_not_closed ==
    SeqSum(to_list(SelectSeq(loans, LAMBDA l : l.status # "closed"), FetchCap),
           "principal_amount")

total_active_loans == Len(to_list(find_status("active"), FetchCap))
total_loan_amount ==
    SeqSum(to_list(find_status("active"), FetchCap), "principal_amount")
cash_in_hand == SeqSum(to_list(payments, FetchCap), "amount")

\* active_loans = await db.loans.find({"status": "active"}).to_list(1000)
get_dashboard_stats_loans(c) ==
    /\ pc[c] = "idle"
    /\ local' = [local EXCEPT ![c] =
           [op |-> "get_dashboard_stats",
            total_active_loans |-> total_active_loans,
            total_loan_amount |-> total_loan_amount]]
    /\ pc' = [pc EXCEPT ![c] = "dash_payments"]
    /\ resp' = NoResp
    /\ UNCHANGED <<loans, payments, now, schema, issued, received, users>>

\* payments = await db.payments.find({}).to_list(1000); the customer count and
\* the recent lists, which the model leaves out, do not enter these figures.
get_dashboard_stats_payments(c) ==
    /\ pc[c] = "dash_payments"
    /\ resp' = [client |-> c, op |-> "get_dashboard_stats", code |-> 200,
            total_active_loans |-> local[c].total_active_loans,
            total_loan_amount |-> local[c].total_loan_amount,
            cash_in_hand |-> cash_in_hand]
    /\ pc' = [pc EXCEPT ![c] = "idle"]
    /\ local' = [local EXCEPT ![c] = NoLocal]
    /\ UNCHANGED <<loans, payments, now, schema, issued, received, users>>

\* ---------------------------------------------------------- specification
\* The steps of create_loan, its bodies drawn from datas.
CreateSteps(c, datas) ==
    \/ \E data \in datas : create_loan_generate(c, data)
    \/ create_loan_build(c)
    \/ create_loan_insert(c)

\* The steps of update_loan, its documents drawn from docs, and delete_loan.
ManageSteps(c, docs) ==
    \/ \E id \in LoanIds, doc \in docs : update_loan_set(c, id, doc)
    \/ update_loan_fetch(c)
    \/ \E id \in LoanIds : delete_loan(c, id)

PaymentSteps(c) ==
    \/ \E body \in PaymentCreate : create_payment_find(c, body)
    \/ create_payment_insert(c)

RegisterSteps(c) ==
    \/ \E user_data \in UserCreate : register_user_find(c, user_data)
    \/ register_user_insert(c)

InterestSteps(c) ==
    \E id \in LoanIds, as_of \in AsOfDates : calculate_loan_interest(c, id, as_of)

DashboardSteps(c) ==
    \/ get_dashboard_stats_loans(c)
    \/ get_dashboard_stats_payments(c)

\* The ledger under concurrent clients.
Next ==
    \E c \in Clients :
        \/ CreateSteps(c, LedgerLoans)
        \/ ManageSteps(c, StatusDocs)
        \/ PaymentSteps(c)
        \/ DashboardSteps(c)

Spec == Init /\ [][Next]_vars

\* The ledger under one client: a request completes before the next starts.
NextSeq ==
    \/ CreateSteps(1, LedgerLoans)
    \/ ManageSteps(1, StatusDocs)
    \/ PaymentSteps(1)
    \/ DashboardSteps(1)

SpecSeq == Init /\ [][NextSeq]_vars

\* Loan creation, update and deletion under concurrent clients.
NextLoans ==
    \E c \in Clients : CreateSteps(c, SerialLoans) \/ ManageSteps(c, UpdateDocs)

SpecLoans == Init /\ [][NextLoans]_vars

\* Loan creation, update and deletion under one client.
NextLoansSeq == CreateSteps(1, SerialLoans) \/ ManageSteps(1, UpdateDocs)

SpecLoansSeq == Init /\ [][NextLoansSeq]_vars

\* Loan creation alone under concurrent clients, from the empty ledger.
NextCreate == \E c \in Clients : CreateSteps(c, SerialLoans)

SpecCreate == Init /\ [][NextCreate]_vars

\* Loan creation alone under one client, with any principal, rate and loan
\* date: no two create_loan calls overlap and no loan is updated or deleted.
NextCreateSeq == CreateSteps(1, LoanCreate)

SpecCreateSeq == Init /\ [][NextCreateSeq]_vars

\* Registration alone under concurrent clients.
NextUsers == \E c \in Clients : RegisterSteps(c)

SpecUsers == Init /\ [][NextUsers]_vars

\* A ledger of one loan and n accepted payments of 100.00 on it.
CapLoan ==
    [id |-> 1, serial_no |-> SerialStr(FirstSerial),
     principal_amount |-> Money(100), monthly_interest |-> 2,
     loan_date |-> isoformat(0),
     status |-> "active", created_at |-> 1]

CapBody ==
    [loan_id |-> 1, amount |-> Money(100), transaction_type |-> "both",
     principal_paid |-> Money(60), interest_paid |-> Money(40)]

InitLedger(n) ==
    /\ schema \in Schemas
    /\ loans = <<CapLoan>>
    /\ payments = [i \in 1..n |->
           [loan_id |-> 1, loan_serial_no |-> CapLoan.serial_no,
            amount |-> parse_payment(CapBody).amount,
            transaction_type |-> parse_payment(CapBody).transaction_type,
            principal_paid |-> parse_payment(CapBody).principal_paid,
            interest_paid |-> parse_payment(CapBody).interest_paid]]
    /\ now = 1
    /\ pc = [c \in Clients |-> "idle"]
    /\ local = [c \in Clients |-> NoLocal]
    /\ resp = NoResp
    /\ issued = <<CapLoan.serial_no>>
    /\ received = n * CapBody.amount
    /\ users = <<>>

\* Payments and the dashboard under one client, on a ledger with no payment
\* yet and on a ledger one payment short of the dashboard's fetch cap.
InitCap == InitLedger(0) \/ InitLedger(FetchCap - 1)

NextCap == ManageSteps(1, StatusDocs) \/ PaymentSteps(1) \/ DashboardSteps(1)

SpecCap == InitCap /\ [][NextCap]_vars

\* A ledger of the n loans that n create_loan calls in turn leave, with no
\* payment.
InitLoans(n) ==
    /\ schema \in Schemas
    /\ loans = [i \in 1..n |->
           [id |-> i, serial_no |-> SerialStr(FirstSerial + i - 1),
            principal_amount |-> Money(100), monthly_interest |-> 2,
            loan_date |-> isoformat(0), status |-> "active", created_at |-> i]]
    /\ payments = <<>>
    /\ now = n
    /\ pc = [c \in Clients |-> "idle"]
    /\ local = [c \in Clients |-> NoLocal]
    /\ resp = NoResp
    /\ issued = [i \in 1..n |-> SerialStr(FirstSerial + i - 1)]
    /\ received = 0
    /\ users = <<>>

\* Loans, their status changes and the dashboard under one client, on the
\* empty ledger and on a ledger one loan past the dashboard's fetch cap.
InitDashboard == InitLoans(0) \/ InitLoans(FetchCap + 1)

NextDashboard ==
    \/ CreateSteps(1, LedgerLoans)
    \/ ManageSteps(1, DashboardDocs)
    \/ DashboardSteps(1)

SpecDashboard == InitDashboard /\ [][NextDashboard]_vars

\* The ledger create_loan leaves after one request.
InitLoan(data) ==
    /\ schema \in Schemas
    /\ loans = <<[id |-> 1, serial_no |-> SerialStr(FirstSerial),
                  principal_amount |-> data.principal_amount,
                  monthly_interest |-> data.monthly_interest,
                  loan_date |-> isoformat(data.loan_date),
                  status |-> "active", created_at |-> 1]>>
    /\ payments = <<>>
    /\ now = 1
    /\ pc = [c \in Clients |-> "idle"]
    /\ local = [c \in Clients |-> NoLocal]
    /\ resp = NoResp
    /\ issued = <<SerialStr(FirstSerial)>>
    /\ received = 0
    /\ users = <<>>

\* Interest queries on one loan of any principal, rate and loan date as the
\* clock advances.
InitQuote == \E data \in LoanCreate : InitLoan(data)

NextQuote == InterestSteps(1)

SpecQuote == InitQuote /\ [][NextQuote]_vars

\* Loans with any principal, rate and loan date, and interest queries as
\* the clock advances, under one client.
NextInterest == CreateSteps(1, LoanCreate) \/ InterestSteps(1)

SpecInterest == Init /\ [][NextInterest]_vars

\* Payments on one loan and interest queries on it, under one client.
NextAccrual == PaymentSteps(1) \/ InterestSteps(1)

SpecAccrual == InitLedger(0) /\ [][NextAccrual]_vars

\* ------------------------------------------------------------ ledger view
\* The payments recorded in ps for the loan with this id.
payments_of(ps, id) == SelectSeq(ps, LAMBDA p : p.loan_id = id)

\* principal_amount minus the sum of principal_paid over the loan's payments.
outstanding_principal(loan) ==
    loan.principal_amount - SeqSum(payments_of(payments, loan.id), "principal_paid")

\* The integer part of a serial number A<n>.
serial_num(serial_no) == ParseInt(DropFirst(serial_no))[1]

\* The loans whose status is active.
active_loans == {k \in DOMAIN loans : loans[k].status = "active"}

\* The quotient a * b / m (a >= 0, m > 0) rounded to the nearest integer, a
\* tie going up.
round_half_up(a, b, m) ==
    LET g == GCD(m, Abs(b))
        bb == b \div g
        mm == m \div g
        n == (a % mm) * bb
        q == (a \div mm) * bb + (n \div mm)
        r == n % mm
    IN  IF 2 * r < mm THEN q ELSE q + 1

\* principal * per_year / (100 * 365) rounded to 2 decimals half-up.
half_up_2(principal, per_year) ==
    Paisa(round_half_up(principal, per_year, Money(1) * YearDays))

\* The interest response in resp, if resp is one.
IsInterestResult(r) == r.op = "calculate_loan_interest" /\ r.code = 200

\* ----------------------------------------------------------------- claims

\* C1: under any interleaving of concurrent create_loan requests, every two
\* loans stored in the ledger have distinct serial_no values.
C1_StoredSerialsDistinct ==
    \A i, j \in DOMAIN loans : i # j => loans[i].serial_no # loans[j].serial_no

\* C2: from the empty ledger, the serial numbers issued to N create_loan
\* calls are exactly A150, A151, ..., A(150+N-1).
C2_IssuedContiguousFrom150 ==
    {issued[k] : k \in DOMAIN issued}
        = {SerialStr(FirstSerial + k - 1) : k \in DOMAIN issued}

\* C3: over any sequence of create_loan, update_loan and delete_loan, each
\* newly issued serial number is greater, by its integer part, than every
\* serial number issued before it.
C3_IssuedStrictlyIncreasing ==
    \A i, j \in DOMAIN issued :
        i < j => serial_num(issued[i]) < serial_num(issued[j])

C5_BothSplitAddsUp ==
    \A i \in DOMAIN payments :
        payments[i].transaction_type = "both" =>
            payments[i].principal_paid + payments[i].interest_paid
                = payments[i].amount

\* C6: no step adds a payment for a loan whose status is closed.
C6_ClosedLoanTakesNoPayment ==
    [][\A k \in DOMAIN loans :
           loans[k].status = "closed" =>
               payments_of(payments', loans[k].id)
                   = payments_of(payments, loans[k].id)]_vars

\* C7: a payment request whose loan_id matches no loan is answered 404, ends
\* there, and leaves the loans and payments collections unchanged.
C7_UnknownLoanIs404 ==
    [][\A c \in Clients, body \in PaymentCreate :
           (create_payment_find(c, body) /\ find_one(body.loan_id) = None) =>
               /\ resp' = [client |-> c, op |-> "create_payment", code |-> 404]
               /\ pc'[c] = "idle"
               /\ UNCHANGED <<loans, payments>>]_vars

\* C7 witness: a payment request was answered 404 after the loan of the
\* recorded payments was deleted.
C7_Witness ==
    /\ resp.op = "create_payment"
    /\ resp.code = 404
    /\ loans = <<>>
    /\ payments # <<>>

\* C8: every recorded payment has amount > 0.
C8_AmountsPositive == \A i \in DOMAIN payments : payments[i].amount > 0

\* C9: the outstanding principal of every loan is never negative.
C9_OutstandingNonNegative ==
    \A k \in DOMAIN loans : outstanding_principal(loans[k]) >= 0

\* C10 as stated: the dashboard's cash_in_hand is the sum of amount over every
\* payment ever recorded, however many there are.
C10_CashInHandIsAllReceived ==
    /\ cash_in_hand = received
    /\ resp.op = "get_dashboard_stats" => resp.cash_in_hand = received

\* C10 as amended: while at most FetchCap payments are recorded, the
\* dashboard's cash_in_hand is the sum of amount over every payment ever
\* recorded, whatever became of their loans.
C10_CashInHandWithinCap ==
    Len(payments) <= FetchCap =>
        /\ cash_in_hand = received
        /\ resp.op = "get_dashboard_stats" => resp.cash_in_hand = received

\* C10 witness: the dashboard reported the sum of several payments, one of
\* them on a loan that is closed or deleted.
C10_Witness ==
    /\ resp.op = "get_dashboard_stats"
    /\ resp.cash_in_hand = received
    /\ received > 0
    /\ Len(payments) >= 2
    /\ Len(payments) <= FetchCap
    /\ \E i \in DOMAIN payments :
           /\ payments[i].amount > 0
           /\ \A k \in DOMAIN loans :
                  loans[k].id = payments[i].loan_id => loans[k].status = "closed"

\* C11 as stated: the dashboard's total_loan_amount is the sum of
\* principal_amount over exactly the active loans and total_active_loans is
\* their number, however many there are.
C11_DashboardTotalsAllActive ==
    resp.op = "get_dashboard_stats" =>
        /\ resp.total_active_loans = Cardinality(active_loans)
        /\ resp.total_loan_amount
               = SeqSum(SelectSeq(loans, LAMBDA l : l.status = "active"),
                        "principal_amount")

\* C11 as amended: while at most FetchCap loans are active, the dashboard's
\* total_loan_amount is the sum of principal_amount over exactly the active
\* loans and total_active_loans is their number; closed and overdue loans
\* contribute to neither.
C11_DashboardTotalsWithinCap ==
    (resp.op = "get_dashboard_stats" /\ Cardinality(active_loans) <= FetchCap) =>
        /\ resp.total_active_loans = Cardinality(active_loans)
        /\ resp.total_loan_amount
               = SeqSum(SelectSeq(loans, LAMBDA l : l.status = "active"),
                        "principal_amount")

\* C11 witness: the dashboard reported the active loans of a ledger that
\* also holds a closed and an overdue loan.
C11_Witness ==
    /\ resp.op = "get_dashboard_stats"
    /\ resp.total_active_loans = Cardinality(active_loans)
    /\ resp.total_active_loans >= 1
    /\ resp.total_active_loans <= FetchCap
    /\ \E k \in DOMAIN loans : loans[k].status = "closed"
    /\ \E k \in DOMAIN loans : loans[k].status = "overdue"

\* C12: an interest result for an elapsed time of 0..365 whole days is tagged
\* simple, and one for 366 or more days is tagged compound, whatever the
\* principal.
C12_RegimeExactAtOneYear ==
    IsInterestResult(resp) =>
        LET elapsed == now - fromisoformat(find_one(resp.loan_id)[1].loan_date)
        IN  /\ (0 <= elapsed /\ elapsed < Days(YearDays + 1)) =>
                   resp.result.interest_type = "simple"
            /\ elapsed >= Days(YearDays + 1) =>
                   resp.result.interest_type = "compound"

\* C12 witness: an interest result for 365 days and a part of the 366th,
\* tagged simple.
C12_Witness ==
    /\ IsInterestResult(resp)
    /\ resp.result.days = YearDays
    /\ resp.result.interest_type = "simple"
    /\ now - fromisoformat(find_one(resp.loan_id)[1].loan_date) > Days(YearDays)

\* C13: in the simple regime the interest is principal x 0.24 x days / 365
\* rounded to 2 decimals half-up, and total_amount is the principal plus
\* that interest, rounded alike.
C13_SimpleInterestHalfUp ==
    (IsInterestResult(resp) /\ resp.result.interest_type = "simple"
         /\ resp.result.days >= 0) =>
        /\ resp.result.interest
               = half_up_2(resp.result.principal, AnnualRatePct * resp.result.days)
        /\ resp.result.total_amount
               = half_up_2(resp.result.principal,
                           100 * YearDays + AnnualRatePct * resp.result.days)

\* C14: no interest result has a negative number of elapsed days or a
\* negative interest.
C14_NoNegativeElapsed ==
    IsInterestResult(resp) =>
        /\ resp.result.days >= 0
        /\ resp.result.interest_type = "simple" => resp.result.interest >= 0

\* C15: an interest query for the loan and the as-of date of the query
\* answered just before it, with no payment in between, gets the same result.
C15_SameAsOfSameResult ==
    [][\A c \in Clients, id \in LoanIds, as_of \in AsOfDates :
           (/\ calculate_loan_interest(c, id, as_of)
            /\ as_of # None
            /\ IsInterestResult(resp)
            /\ resp.loan_id = id
            /\ resp.as_of = as_of
            /\ IsInterestResult(resp')
            /\ payments' = payments) =>
               resp'.result = resp.result]_vars

C17_SerialImmutable ==
    \A k \in DOMAIN loans : loans[k].serial_no = issued[loans[k].id]

\* C18: when create_payment appends its payment, the loan its check found is
\* still in the ledger.
C18_LoanStillThereAtAppend ==
    [][\A c \in Clients :
           create_payment_insert(c) => find_one(local[c].doc.loan_id) # None]_vars

\* C19: the principal an interest result is accrued on is the loan's
\* outstanding principal, principal_amount minus the principal paid.
C19_InterestOnOutstanding ==
    IsInterestResult(resp) =>
        resp.result.principal
            = outstanding_principal(find_one(resp.loan_id)[1])

\* C20: two loans equal in principal and loan_date and different in
\* monthly_interest, queried at the same instant a day or more after the
\* loan date, get different interest results.
C20_RateFollowsMonthlyInterest ==
    [][\A c \in Clients, id \in LoanIds, as_of \in AsOfDates :
           (/\ calculate_loan_interest(c, id, as_of)
            /\ IsInterestResult(resp)
            /\ IsInterestResult(resp')
            /\ now' = now
            /\ find_one(resp.loan_id) # None
            /\ find_one(resp.loan_id)[1].principal_amount
                   = find_one(id)[1].principal_amount
            /\ find_one(resp.loan_id)[1].principal_amount >= Money(100)
            /\ find_one(resp.loan_id)[1].loan_date = find_one(id)[1].loan_date
            /\ find_one(resp.loan_id)[1].monthly_interest
                   # find_one(id)[1].monthly_interest
            /\ resp.result.days >= 1) =>
               resp'.result # resp.result]_vars

\* C21: when create_loan calls do not overlap and no loan is updated or
\* deleted, the k-th loan created on the empty ledger is issued and stored
\* with serial A(150+k-1), one more than the serial of the loan before it.
C21_SequentialSerialsCount ==
    /\ \A k \in DOMAIN issued : issued[k] = SerialStr(FirstSerial + k - 1)
    /\ \A k \in DOMAIN loans : loans[k].serial_no = SerialStr(FirstSerial + k - 1)
    /\ \A k \in DOMAIN loans :
           k > 1 => serial_num(loans[k].serial_no)
                        = serial_num(loans[k - 1].serial_no) + 1

\* C21 witness: a second loan was created and answered with serial A151.
C21_Witness ==
    /\ resp.op = "create_loan"
    /\ resp.serial_no = SerialStr(FirstSerial + 1)
    /\ Len(loans) = 2
    /\ loans[2].serial_no = SerialStr(FirstSerial + 1)

\* C22: no step of create_payment, whether the request is accepted or
\* rejected, changes any field of any loan document.
C22_PaymentChangesNoLoan ==
    [][\A c \in Clients :
           ((\E body \in PaymentCreate : create_payment_find(c, body))
                \/ create_payment_insert(c)) =>
               loans' = loans]_vars

\* C22 witness: a full_release payment was accepted and its loan is still
\* active.
C22_Witness ==
    /\ resp.op = "create_payment"
    /\ resp.code = 200
    /\ payments # <<>>
    /\ payments[Len(payments)].transaction_type = "full_release"
    /\ find_one(payments[Len(payments)].loan_id) # None
    /\ find_one(payments[Len(payments)].loan_id)[1].status = "active"

\* C23: delete_loan of a stored loan removes that loan document and nothing
\* else, leaving the payments and the dashboard's cash_in_hand as they were;
\* delete_loan of an unknown id is answered 404 and changes nothing.
C23_DeleteRemovesOnlyTheLoan ==
    [][\A c \in Clients, id \in LoanIds :
           delete_loan(c, id) =>
               /\ payments' = payments
               /\ LET after == payments'
                  IN  SeqSum(to_list(after, FetchCap), "amount") = cash_in_hand
               /\ IF find_one(id) = None
                  THEN resp'.code = 404 /\ loans' = loans
                  ELSE /\ resp'.code = 200
                       /\ loans' = SelectSeq(loans, LAMBDA l : l.id # id)]_vars

\* C23 witness: the dashboard counted the payments of a deleted loan.
C23_Witness ==
    /\ resp.op = "get_dashboard_stats"
    /\ loans = <<>>
    /\ payments # <<>>
    /\ received > 0
    /\ resp.cash_in_hand = received

\* C24: after any interleaving of register_user requests, no two stored
\* users share an email.
C24_StoredEmailsDistinct ==
    \A i, j \in DOMAIN users : i # j => users[i].email # users[j].email

====
